---- MODULE Spec2Model ----
(***************************************************************************)
(* Pocket DevTools: the JSON toolkit core.                                 *)
(*   - the structural differencer   (frontend/src/lib/jsonDiff.ts)         *)
(*   - the parse-issue locator      (lib/jsonTools: validateJson)          *)
(*   - the scaffold tree editor     (lib/jsonScaffold + its React builder) *)
(* JavaScript strings are modelled as sequences of one-character strings,  *)
(* so that concatenation, sorting, trimming and grammar matching are       *)
(* computed and not assumed.                                               *)
(***************************************************************************)
EXTENDS Integers, Sequences, FiniteSets, TLC

VARIABLES
    \* JSON compare: the two parsed documents and the computed difference list
    left, right, differences, diffPc,
    \* JSON validation: the text, the offset located in it, and the parse issue
    text, locOffset, location, roundTrip, message, issue, locPc,
    \* Scaffold builder: the JavaScript heap of node objects, the root the
    \* component holds (React state), the module's nodeCounter, a root some
    \* caller still holds from earlier with the tree it saw then, the last
    \* handler that ran, and how many have run
    heap, rootNode, nodeCounter, heldRoot, heldTree, lastOp, opCount,
    \* JSON compare UI: which component is mounted (JsonToolkit or
    \* JsonComparePage), the two text inputs, the React state of the component,
    \* the memoised difference list, and whether the last render called the
    \* differencer and on what
    page, leftInput, rightInput, comparePressed, error, leftValue, rightValue,
    shownDifferences, diffCall,
    \* useTtsJob: whether the component is mounted, its React state (activeJob,
    \* isSubmitting, requestError), pollRef.current, the intervals the window
    \* has scheduled (each polls one job), the POST in flight, the GET requests
    \* and responses in flight, the backend's jobs, the jobs a poll response
    \* reported finished, and the last event of the hook
    mounted, activeJob, isSubmitting, requestError, pollRef, timers,
    createReq, polls, responses, backend, reported, ttsEvent

diffVars == <<left, right, differences, diffPc>>

locVars == <<text, locOffset, location, roundTrip, message, issue, locPc>>

scaffoldVars == <<heap, rootNode, nodeCounter, heldRoot, heldTree, lastOp, opCount>>

compareVars == <<page, leftInput, rightInput, comparePressed, error, leftValue, rightValue,
                 shownDifferences, diffCall>>

ttsVars == <<mounted, activeJob, isSubmitting, requestError, pollRef, timers,
             createReq, polls, responses, backend, reported, ttsEvent>>

vars == <<left, right, differences, diffPc,
          text, locOffset, location, roundTrip, message, issue, locPc,
          heap, rootNode, nodeCounter, heldRoot, heldTree, lastOp, opCount,
          page, leftInput, rightInput, comparePressed, error, leftValue, rightValue,
          shownDifferences, diffCall,
          mounted, activeJob, isSubmitting, requestError, pollRef, timers,
          createReq, polls, responses, backend, reported, ttsEvent>>

(***************************************************************************)
(* Characters and strings                                                  *)
(***************************************************************************)
Digits == <<"0", "1", "2", "3", "4", "5", "6", "7", "8", "9">>

Lower == <<"a", "b", "c", "d", "e", "f", "g", "h", "i", "j", "k", "l", "m",
           "n", "o", "p", "q", "r", "s", "t", "u", "v", "w", "x", "y", "z">>

Range(s) == {s[i] : i \in 1..Len(s)}

IndexOf(s, c) == CHOOSE i \in 1..Len(s) : s[i] = c

\* UTF-16 code unit of a character (what the default Array.prototype.sort
\* and String comparison order by).
CharCode(c) ==
    IF c \in Range(Digits) THEN 47 + IndexOf(Digits, c)
    ELSE IF c \in Range(Lower) THEN 96 + IndexOf(Lower, c)
    ELSE CASE c = " " -> 32
           [] c = "\"" -> 34
           [] c = "$" -> 36
           [] c = "(" -> 40
           [] c = ")" -> 41
           [] c = "," -> 44
           [] c = "-" -> 45
           [] c = "." -> 46
           [] c = ":" -> 58
           [] c = "[" -> 91
           [] c = "\\" -> 92
           [] c = "]" -> 93
           [] c = "_" -> 95
           [] c = "{" -> 123
           [] c = "}" -> 125
           [] c = "\n" -> 10

\* a < b in the order of String.prototype comparison (code units, a proper
\* prefix first).
RECURSIVE StrLess(_, _)
StrLess(a, b) ==
    IF b = <<>> THEN FALSE
    ELSE IF a = <<>> THEN TRUE
    ELSE IF CharCode(Head(a)) # CharCode(Head(b))
         THEN CharCode(Head(a)) < CharCode(Head(b))
    ELSE StrLess(Tail(a), Tail(b))

\* String(n) for a non-negative integer: its decimal digits.
RECURSIVE ToDigits(_)
ToDigits(n) ==
    IF n < 10 THEN <<Digits[n + 1]>>
    ELSE ToDigits(n \div 10) \o <<Digits[(n % 10) + 1]>>

RECURSIVE Concat(_)
Concat(ss) == IF ss = <<>> THEN <<>> ELSE Head(ss) \o Concat(Tail(ss))

Max(a, b) == IF a >= b THEN a ELSE b

Min(a, b) == IF a <= b THEN a ELSE b

(***************************************************************************)
(* JSON values as JavaScript holds them after JSON.parse                   *)
(***************************************************************************)
Undefined == [t |-> "undefined", v |-> <<>>]

JNull == [t |-> "null", v |-> <<>>]

JBool(b) == [t |-> "boolean", v |-> b]

\* a number keeps its sign apart from its magnitude: JSON.parse("-0") is -0
JNum(neg, mag) == [t |-> "number", v |-> [neg |-> neg, mag |-> mag]]

JStr(s) == [t |-> "string", v |-> s]

JArr(xs) == [t |-> "array", v |-> xs]

\* an object is the sequence of its own properties, in property order
JObj(ps) == [t |-> "object", v |-> ps]

Prop(k, x) == [k |-> k, val |-> x]

isArray(value) == value.t = "array"

isObject(value) == value.t = "object"

ObjectKeys(obj) == [i \in 1..Len(obj.v) |-> obj.v[i].k]

\* obj[key]: the own property, undefined when there is none
PropertyGet(obj, key) ==
    IF \E i \in 1..Len(obj.v) : obj.v[i].k = key
    THEN obj.v[CHOOSE i \in 1..Len(obj.v) : obj.v[i].k = key].val
    ELSE Undefined

\* arr[index] with a zero-based index: undefined past the end
ElementGet(arr, index) ==
    IF index < Len(arr.v) THEN arr.v[index + 1] ELSE Undefined

\* Object.is on two values that are not both arrays and not both objects:
\* SameValue on primitives (so -0 and 0 differ); two containers of different
\* kinds are never the same reference.
\* == in the place of Object.is: 0, false and "0" are loosely equal, and so
\* are null and undefined
ObjectIsLoose(a, b) ==
    LET Zeroish(x) ==
            \/ x.t = "number" /\ x.v.mag = 0
            \/ x.t = "boolean" /\ x.v = FALSE
            \/ x.t = "string" /\ x.v = <<"0">>
        Nullish(x) == x.t \in {"null", "undefined"}
    IN \/ a = b /\ a.t \notin {"array", "object"}
       \/ Zeroish(a) /\ Zeroish(b)
       \/ Nullish(a) /\ Nullish(b)

ObjectIs(a, b) ==
    /\ a.t = b.t
    /\ a.t \notin {"array", "object"}
    /\ a.v = b.v

\* the escapes JSON.stringify applies inside a string literal
RECURSIVE EscapeString(_)
EscapeString(s) ==
    IF s = <<>> THEN <<>>
    ELSE (IF Head(s) \in {"\"", "\\"} THEN <<"\\", Head(s)>>
          ELSE IF Head(s) = "\n" THEN <<"\\", "n">>
          ELSE <<Head(s)>>) \o EscapeString(Tail(s))

QuoteString(s) == <<"\"">> \o EscapeString(s) \o <<"\"">>

RECURSIVE JoinComma(_)
JoinComma(ss) ==
    IF ss = <<>> THEN <<>>
    ELSE IF Len(ss) = 1 THEN ss[1]
    ELSE ss[1] \o <<",">> \o JoinComma(Tail(ss))

\* JSON.stringify(value) without indentation
RECURSIVE JsonStringify(_)
JsonStringify(value) ==
    CASE value.t = "null" -> <<"n", "u", "l", "l">>
      [] value.t = "boolean" ->
            IF value.v THEN <<"t", "r", "u", "e">> ELSE <<"f", "a", "l", "s", "e">>
      [] value.t = "number" ->
            IF value.v.neg /\ value.v.mag # 0
            THEN <<"-">> \o ToDigits(value.v.mag)
            ELSE ToDigits(value.v.mag)
      [] value.t = "string" -> QuoteString(value.v)
      [] value.t = "array" ->
            <<"[">> \o JoinComma([i \in 1..Len(value.v) |-> JsonStringify(value.v[i])])
                    \o <<"]">>
      [] value.t = "object" ->
            <<"{">> \o JoinComma([i \in 1..Len(value.v) |->
                          QuoteString(value.v[i].k) \o <<":">>
                              \o JsonStringify(value.v[i].val)])
                    \o <<"}">>

MissingText == <<"(", "m", "i", "s", "s", "i", "n", "g", ")">>

\* JSON.stringify's own answer inside an array for undefined: null
formatValueMissingAsNull(value) ==
    IF value.t = "undefined" THEN <<"n", "u", "l", "l">> ELSE JsonStringify(value)

formatValue(value) ==
    IF value.t = "undefined" THEN MissingText ELSE JsonStringify(value)

\* Array.from(new Set(keys)): first occurrences, in order
RECURSIVE Dedup(_)
Dedup(ks) ==
    IF ks = <<>> THEN <<>>
    ELSE LET init == Dedup(SubSeq(ks, 1, Len(ks) - 1))
             last == ks[Len(ks)]
         IN IF last \in Range(init) THEN init ELSE Append(init, last)

\* insert k into the sorted sequence s
RECURSIVE InsertSorted(_, _)
InsertSorted(s, k) ==
    IF s = <<>> THEN <<k>>
    ELSE IF StrLess(k, Head(s)) THEN <<k>> \o s
    ELSE <<Head(s)>> \o InsertSorted(Tail(s), k)

\* keys.sort(): ascending by code units
RECURSIVE SortKeys(_)
SortKeys(ks) ==
    IF ks = <<>> THEN <<>>
    ELSE InsertSorted(SortKeys(SubSeq(ks, 1, Len(ks) - 1)), ks[Len(ks)])

\* the key union left in insertion order, the sort forgotten
UnsortedUnionKeys(l, r) == Dedup(ObjectKeys(l) \o ObjectKeys(r))

UnionKeys(l, r) == SortKeys(Dedup(ObjectKeys(l) \o ObjectKeys(r)))

\* the brackets without the index in them
IndexPathWithoutIndex(path, index) == path \o <<"[", "]">>

IndexPath(path, index) == path \o <<"[">> \o ToDigits(index) \o <<"]">>

\* a key appended without its dot
KeyPathWithoutDot(path, key) == path \o key

KeyPath(path, key) == path \o <<".">> \o key

Difference(path, l, r) == [path |-> path, left |-> formatValue(l), right |-> formatValue(r)]

RECURSIVE diffJsonValues(_, _, _)

\* two arrays compared over the indices both have
diffJsonValuesUpToShorter(l, r, path) ==
    IF isArray(l) /\ isArray(r)
    THEN LET minLength == Min(Len(l.v), Len(r.v))
         IN Concat([n \in 1..minLength |->
                diffJsonValues(ElementGet(l, n - 1), ElementGet(r, n - 1),
                               IndexPath(path, n - 1))])
    ELSE IF isObject(l) /\ isObject(r)
    THEN LET keys == UnionKeys(l, r)
         IN Concat([n \in 1..Len(keys) |->
                diffJsonValues(PropertyGet(l, keys[n]), PropertyGet(r, keys[n]),
                               KeyPath(path, keys[n]))])
    ELSE IF ~ObjectIs(l, r)
    THEN <<Difference(path, l, r)>>
    ELSE <<>>

\* two objects compared by their serialised text, which follows key order
diffJsonValuesByObjectText(l, r, path) ==
    IF isArray(l) /\ isArray(r)
    THEN LET maxLength == Max(Len(l.v), Len(r.v))
         IN Concat([n \in 1..maxLength |->
                diffJsonValues(ElementGet(l, n - 1), ElementGet(r, n - 1),
                               IndexPath(path, n - 1))])
    ELSE IF isObject(l) /\ isObject(r)
    THEN IF JsonStringify(l) # JsonStringify(r) THEN <<Difference(path, l, r)>> ELSE <<>>
    ELSE IF ~ObjectIs(l, r)
    THEN <<Difference(path, l, r)>>
    ELSE <<>>

diffJsonValues(l, r, path) ==
    IF isArray(l) /\ isArray(r)
    THEN LET maxLength == Max(Len(l.v), Len(r.v))
         IN Concat([n \in 1..maxLength |->
                diffJsonValues(ElementGet(l, n - 1), ElementGet(r, n - 1),
                               IndexPath(path, n - 1))])
    ELSE IF isObject(l) /\ isObject(r)
    THEN LET keys == UnionKeys(l, r)
         IN Concat([n \in 1..Len(keys) |->
                diffJsonValues(PropertyGet(l, keys[n]), PropertyGet(r, keys[n]),
                               KeyPath(path, keys[n]))])
    ELSE IF ~ObjectIs(l, r)
    THEN <<Difference(path, l, r)>>
    ELSE <<>>

RootPath == <<"$">>


(***************************************************************************)
(* validateJson and its locator                                            *)
(***************************************************************************)
ParsedLocation(line, column, offset) == [line |-> line, column |-> column, offset |-> offset]

\* the for loop of getLineColumnFromOffset, from `index` on
RECURSIVE LineColumnLoop(_, _, _, _, _)
LineColumnLoop(input, index, normalizedOffset, line, column) ==
    IF index < normalizedOffset
    THEN IF input[index + 1] = "\n"
         THEN LineColumnLoop(input, index + 1, normalizedOffset, line + 1, 1)
         ELSE LineColumnLoop(input, index + 1, normalizedOffset, line, column + 1)
    ELSE ParsedLocation(line, column, normalizedOffset)

\* columns counted from 0
getLineColumnFromOffsetZeroBased(input, offset) ==
    IF offset < 0 THEN ParsedLocation(1, 1, 0)
    ELSE LineColumnLoop(input, 0, Min(offset, Len(input)), 1, 0)

\* the offset handed back as it came in
getLineColumnFromOffsetUnclamped(input, offset) ==
    IF offset < 0 THEN ParsedLocation(1, 1, offset)
    ELSE [LineColumnLoop(input, 0, Min(offset, Len(input)), 1, 1) EXCEPT !.offset = offset]

getLineColumnFromOffset(input, offset) ==
    IF offset < 0 THEN ParsedLocation(1, 1, 0)
    ELSE LineColumnLoop(input, 0, Min(offset, Len(input)), 1, 1)

\* the for loop of getOffsetFromLineColumn, from `index` on
RECURSIVE OffsetLoop(_, _, _, _, _, _)
OffsetLoop(input, index, normalizedLine, normalizedColumn, currentLine, currentColumn) ==
    IF index < Len(input)
    THEN IF currentLine = normalizedLine /\ currentColumn = normalizedColumn
         THEN index
         ELSE IF input[index + 1] = "\n"
         THEN OffsetLoop(input, index + 1, normalizedLine, normalizedColumn,
                         currentLine + 1, 1)
         ELSE OffsetLoop(input, index + 1, normalizedLine, normalizedColumn,
                         currentLine, currentColumn + 1)
    ELSE Len(input)

\* columns counted from 0
getOffsetFromLineColumnZeroBased(input, line, column) ==
    OffsetLoop(input, 0, Max(1, line), Max(1, column), 1, 0)

getOffsetFromLineColumn(input, line, column) ==
    OffsetLoop(input, 0, Max(1, line), Max(1, column), 1, 1)

\* An error message is the sequence of its whitespace-separated tokens: a
\* word, or a run of digits with its value.
Word(w) == [w |-> w, n |-> 0]

Num(n) == [w |-> "#", n |-> n]

IsNum(tok) == tok.w = "#"

LowerCase(w) ==
    CASE w = "Position" -> "position"
      [] w = "Line" -> "line"
      [] w = "Column" -> "column"
      [] w = "At" -> "at"
      [] OTHER -> w

Matches(tok, word) == ~IsNum(tok) /\ LowerCase(tok.w) = word

\* POSITION_REGEX = /position\s+(\d+)/i : where it first matches, 0 if nowhere
PositionMatch(msg) ==
    LET hits == {i \in 1..(Len(msg) - 1) : Matches(msg[i], "position") /\ IsNum(msg[i + 1])}
    IN IF hits = {} THEN 0 ELSE CHOOSE i \in hits : \A j \in hits : i <= j

\* LINE_COLUMN_REGEX = /line\s+(\d+)\s+column\s+(\d+)/i
LineColumnMatch(msg) ==
    LET hits == {i \in 1..(Len(msg) - 3) :
                    /\ Matches(msg[i], "line")
                    /\ IsNum(msg[i + 1])
                    /\ Matches(msg[i + 2], "column")
                    /\ IsNum(msg[i + 3])}
    IN IF hits = {} THEN 0 ELSE CHOOSE i \in hits : \A j \in hits : i <= j

parseIssueLocation(input, msg) ==
    IF PositionMatch(msg) # 0
    THEN getLineColumnFromOffset(input, msg[PositionMatch(msg) + 1].n)
    ELSE IF LineColumnMatch(msg) # 0
    THEN LET parsedLine == msg[LineColumnMatch(msg) + 1].n
             parsedColumn == msg[LineColumnMatch(msg) + 3].n
         IN ParsedLocation(Max(1, parsedLine), Max(1, parsedColumn),
                           getOffsetFromLineColumn(input, parsedLine, parsedColumn))
    ELSE ParsedLocation(1, 1, 0)

\* message.replace(/\s+at\s+position\s+\d+/i, "").trim(): the first
\* "at position N" is cut out
sanitizeMessage(msg) ==
    LET hits == {i \in 1..(Len(msg) - 2) :
                    /\ i > 1
                    /\ Matches(msg[i], "at")
                    /\ Matches(msg[i + 1], "position")
                    /\ IsNum(msg[i + 2])}
    IN IF hits = {} THEN msg
       ELSE LET i == CHOOSE h \in hits : \A j \in hits : h <= j
            IN SubSeq(msg, 1, i - 1) \o SubSeq(msg, i + 3, Len(msg))

createParseIssue(input, msg) ==
    LET loc == parseIssueLocation(input, msg)
    IN [line |-> loc.line, column |-> loc.column, offset |-> loc.offset,
        message |-> sanitizeMessage(msg)]

(***************************************************************************)
(* The scaffold tree (jsonScaffold)                                        *)
(* Node objects live in a heap, a sequence indexed by address; a node's    *)
(* children are addresses. Object spread allocates a new object, an        *)
(* assignment to a field writes the heap in place.                         *)
(***************************************************************************)
KeyUndefined == [def |-> FALSE, s |-> <<>>]

KeyOf(s) == [def |-> TRUE, s |-> s]

NodeObject(id, type, key, children) ==
    [id |-> id, type |-> type, key |-> key, children |-> children]

ScaffoldPrefix == <<"s", "c", "a", "f", "f", "o", "l", "d", "_">>

FieldPrefix == <<"f", "i", "e", "l", "d", "_">>

NameKey == <<"n", "a", "m", "e">>

VersionKey == <<"v", "e", "r", "s", "i", "o", "n">>

ActiveKey == <<"a", "c", "t", "i", "v", "e">>

ExampleText == <<"e", "x", "a", "m", "p", "l", "e">>

NODE_TYPE_OPTIONS == {"string", "number", "boolean", "null", "object", "array"}

CONTAINER_TYPES == {"object", "array"}

\* `scaffold_${nodeCounter}` for the counter's value after the increment
createNodeId(counter) == ScaffoldPrefix \o ToDigits(counter)

isContainerType(type) == type \in CONTAINER_TYPES

Result(h, node, counter) == [heap |-> h, node |-> node, counter |-> counter]

\* a new object on the heap
Alloc(h, obj, counter) == Result(Append(h, obj), Len(h) + 1, counter)

\* the id minted without counting it
createScaffoldNodeReusingId(h, counter, type, key) ==
    Alloc(h, NodeObject(createNodeId(counter + 1), type, key, <<>>), counter)

createScaffoldNode(h, counter, type, key) ==
    Alloc(h, NodeObject(createNodeId(counter + 1), type, key, <<>>), counter + 1)

createInitialScaffold(h, counter) ==
    LET root == createScaffoldNode(h, counter, "object", KeyUndefined)
        c1 == createScaffoldNode(root.heap, root.counter, "string", KeyOf(NameKey))
        c2 == createScaffoldNode(c1.heap, c1.counter, "number", KeyOf(VersionKey))
        c3 == createScaffoldNode(c2.heap, c2.counter, "boolean", KeyOf(ActiveKey))
    IN Result([c3.heap EXCEPT ![root.node].children = <<c1.node, c2.node, c3.node>>],
              root.node, c3.counter)

\* the update callbacks handed to withUpdatedNode
TypeUpdate(nextType) == [kind |-> "type", type |-> nextType, key |-> <<>>]

KeyUpdate(key) == [kind |-> "key", type |-> "", key |-> key]

ChildUpdate == [kind |-> "add", type |-> "", key |-> <<>>]

\* the type set, the children kept whatever the type
updateTypeKeepingChildren(h, node, nextType, counter) ==
    Alloc(h, [h[node] EXCEPT !.type = nextType], counter)

\* the children dropped at every type change, the same type included
updateTypeClearingChildren(h, node, nextType, counter) ==
    Alloc(h, [h[node] EXCEPT !.type = nextType, !.children = <<>>], counter)

\* updateScaffoldNodeType's callback
updateTypeOfNode(h, node, nextType, counter) ==
    LET nextChildren ==
            IF isContainerType(nextType)
            THEN IF h[node].type = nextType THEN h[node].children ELSE <<>>
            ELSE <<>>
    IN Alloc(h, [h[node] EXCEPT !.type = nextType, !.children = nextChildren], counter)

\* node.key = key; return node
updateKeyInPlace(h, node, key, counter) ==
    Result([h EXCEPT ![node].key = KeyOf(key)], node, counter)

\* updateScaffoldNodeKey's callback
updateKeyOfNode(h, node, key, counter) ==
    Alloc(h, [h[node] EXCEPT !.key = KeyOf(key)], counter)

\* the new field numbered by the children there were, not one more
addChildToNodeCountingFromZero(h, node, counter) ==
    IF ~isContainerType(h[node].type)
    THEN Result(h, node, counter)
    ELSE LET childIndex == Len(h[node].children)
             child == IF h[node].type = "object"
                      THEN createScaffoldNode(h, counter, "string",
                                              KeyOf(FieldPrefix \o ToDigits(childIndex)))
                      ELSE createScaffoldNode(h, counter, "string", KeyUndefined)
         IN Alloc(child.heap,
                  [child.heap[node] EXCEPT !.children = Append(@, child.node)],
                  child.counter)

\* addScaffoldChild's callback
addChildToNode(h, node, counter) ==
    IF ~isContainerType(h[node].type)
    THEN Result(h, node, counter)
    ELSE LET childIndex == Len(h[node].children) + 1
             child == IF h[node].type = "object"
                      THEN createScaffoldNode(h, counter, "string",
                                              KeyOf(FieldPrefix \o ToDigits(childIndex)))
                      ELSE createScaffoldNode(h, counter, "string", KeyUndefined)
         IN Alloc(child.heap,
                  [child.heap[node] EXCEPT !.children = Append(@, child.node)],
                  child.counter)

ApplyUpdate(h, node, update, counter) ==
    CASE update.kind = "type" -> updateTypeOfNode(h, node, update.type, counter)
      [] update.kind = "key" -> updateKeyOfNode(h, node, update.key, counter)
      [] update.kind = "add" -> addChildToNode(h, node, counter)

RECURSIVE withUpdatedNode(_, _, _, _, _)
RECURSIVE MapUpdatedChildren(_, _, _, _)

\* node.children.map(...) of withUpdatedNode; st carries the heap, the
\* counter, the children mapped so far and the `changed` flag
MapUpdatedChildren(st, kids, targetId, update) ==
    IF kids = <<>> THEN st
    ELSE LET updated == withUpdatedNode(st.heap, Head(kids), targetId, update, st.counter)
         IN MapUpdatedChildren(
                [heap |-> updated.heap, counter |-> updated.counter,
                 children |-> Append(st.children, updated.node),
                 changed |-> st.changed \/ updated.node # Head(kids)],
                Tail(kids), targetId, update)

withUpdatedNode(h, node, targetId, update, counter) ==
    IF h[node].id = targetId THEN ApplyUpdate(h, node, update, counter)
    ELSE IF h[node].children = <<>> THEN Result(h, node, counter)
    ELSE LET m == MapUpdatedChildren(
                      [heap |-> h, counter |-> counter, children |-> <<>>, changed |-> FALSE],
                      h[node].children, targetId, update)
         IN IF m.changed
            THEN Alloc(m.heap, [m.heap[node] EXCEPT !.children = m.children], m.counter)
            ELSE Result(m.heap, node, m.counter)

updateScaffoldNodeType(h, tree, targetId, nextType, counter) ==
    withUpdatedNode(h, tree, targetId, TypeUpdate(nextType), counter)

updateScaffoldNodeKey(h, tree, targetId, key, counter) ==
    withUpdatedNode(h, tree, targetId, KeyUpdate(key), counter)

addScaffoldChild(h, tree, parentId, counter) ==
    withUpdatedNode(h, tree, parentId, ChildUpdate, counter)

RECURSIVE removeNodeById(_, _, _, _)
RECURSIVE RemoveFromChildren(_, _, _)

\* the loop looking at the node's own children only, never below them
RECURSIVE RemoveFromChildrenNotDescending(_, _, _)
RemoveFromChildrenNotDescending(st, kids, targetId) ==
    IF kids = <<>> THEN st
    ELSE IF st.heap[Head(kids)].id = targetId
    THEN RemoveFromChildrenNotDescending([st EXCEPT !.changed = TRUE], Tail(kids), targetId)
    ELSE RemoveFromChildrenNotDescending(
             [st EXCEPT !.children = Append(st.children, Head(kids))], Tail(kids), targetId)

\* the for loop of removeNodeById
RemoveFromChildren(st, kids, targetId) ==
    IF kids = <<>> THEN st
    ELSE IF st.heap[Head(kids)].id = targetId
    THEN RemoveFromChildren([st EXCEPT !.changed = TRUE], Tail(kids), targetId)
    ELSE LET updatedChild == removeNodeById(st.heap, Head(kids), targetId, st.counter)
         IN RemoveFromChildren(
                [heap |-> updatedChild.heap, counter |-> updatedChild.counter,
                 children |-> Append(st.children, updatedChild.node),
                 changed |-> st.changed \/ updatedChild.node # Head(kids)],
                Tail(kids), targetId)

removeNodeById(h, node, targetId, counter) ==
    IF h[node].children = <<>> THEN Result(h, node, counter)
    ELSE LET m == RemoveFromChildren(
                      [heap |-> h, counter |-> counter, children |-> <<>>, changed |-> FALSE],
                      h[node].children, targetId)
         IN IF m.changed
            THEN Alloc(m.heap, [m.heap[node] EXCEPT !.children = m.children], m.counter)
            ELSE Result(m.heap, node, m.counter)

RECURSIVE TreeIds(_, _)
TreeIds(h, node) ==
    {h[node].id} \cup UNION {TreeIds(h, h[node].children[n]) : n \in 1..Len(h[node].children)}

\* removing the root answers with a fresh empty root
removeScaffoldNodeResettingRoot(h, tree, targetId, counter) ==
    IF h[tree].id = targetId THEN createScaffoldNode(h, counter, "object", KeyUndefined)
    ELSE removeNodeById(h, tree, targetId, counter)

\* children.splice(children.findIndex(...), 1): an id that is not found
\* takes the last child away
removeScaffoldNodeSplicing(h, tree, targetId, counter) ==
    IF h[tree].id = targetId THEN Result(h, tree, counter)
    ELSE IF targetId \in TreeIds(h, tree) \/ h[tree].children = <<>>
    THEN removeNodeById(h, tree, targetId, counter)
    ELSE Alloc(h, [h[tree] EXCEPT !.children = SubSeq(@, 1, Len(@) - 1)], counter)

removeScaffoldNode(h, tree, targetId, counter) ==
    IF h[tree].id = targetId THEN Result(h, tree, counter)
    ELSE removeNodeById(h, tree, targetId, counter)

\* String.prototype.trim
IsSpace(c) == c \in {" ", "\n"}

RECURSIVE TrimStart(_)
TrimStart(s) == IF s # <<>> /\ IsSpace(Head(s)) THEN TrimStart(Tail(s)) ELSE s

RECURSIVE TrimEnd(_)
TrimEnd(s) ==
    IF s # <<>> /\ IsSpace(s[Len(s)]) THEN TrimEnd(SubSeq(s, 1, Len(s) - 1)) ELSE s

Trim(s) == TrimEnd(TrimStart(s))

DEFAULT_VALUE_BY_TYPE(type) ==
    CASE type = "string" -> JStr(ExampleText)
      [] type = "number" -> JNum(FALSE, 123)
      [] type = "boolean" -> JBool(TRUE)
      [] type = "null" -> JNull

\* objectValue[key] = value: a present key keeps its place and takes the
\* new value, a new key goes last
ObjectAssign(ps, key, value) ==
    IF \E i \in 1..Len(ps) : ps[i].k = key
    THEN [i \in 1..Len(ps) |-> IF ps[i].k = key THEN Prop(key, value) ELSE ps[i]]
    ELSE Append(ps, Prop(key, value))

\* child.key || `field_${index + 1}`: the key taken as typed
EffectiveKeyUntrimmed(key, index) ==
    IF key.def /\ key.s # <<>> THEN key.s
    ELSE FieldPrefix \o ToDigits(index + 1)

\* child.key?.trim() || `field_${index + 1}`
EffectiveKey(key, index) ==
    IF key.def /\ Trim(key.s) # <<>> THEN Trim(key.s)
    ELSE FieldPrefix \o ToDigits(index + 1)

RECURSIVE scaffoldNodeToJsonValue(_, _)
RECURSIVE RenderProperties(_, _, _, _)

\* node.children.forEach(...) of the object case, from child n on
RenderProperties(h, kids, n, ps) ==
    IF n > Len(kids) THEN ps
    ELSE RenderProperties(h, kids, n + 1,
            ObjectAssign(ps, EffectiveKey(h[kids[n]].key, n - 1),
                         scaffoldNodeToJsonValue(h, kids[n])))

scaffoldNodeToJsonValue(h, node) ==
    CASE h[node].type = "object" -> JObj(RenderProperties(h, h[node].children, 1, <<>>))
      [] h[node].type = "array" ->
            JArr([n \in 1..Len(h[node].children) |->
                    scaffoldNodeToJsonValue(h, h[node].children[n])])
      [] OTHER -> DEFAULT_VALUE_BY_TYPE(h[node].type)

\* the tree below an address, by value
RECURSIVE TreeOf(_, _)
TreeOf(h, node) ==
    [id |-> h[node].id, type |-> h[node].type, key |-> h[node].key,
     children |-> [n \in 1..Len(h[node].children) |-> TreeOf(h, h[node].children[n])]]

NoTree == [id |-> <<>>, type |-> "", key |-> KeyUndefined, children |-> <<>>]

\* Objects no held reference reaches are gone (garbage collection); the
\* remaining ones are listed in the order a walk from the held roots meets
\* them, which fixes their addresses.
RECURSIVE Preorder(_, _)
Preorder(h, node) ==
    <<node>> \o Concat([n \in 1..Len(h[node].children) |-> Preorder(h, h[node].children[n])])

Compact(h, roots) ==
    LET order == Dedup(Concat([n \in 1..Len(roots) |->
                        IF roots[n] = 0 THEN <<>> ELSE Preorder(h, roots[n])]))
        NewAddr(a) == IF a = 0 THEN 0 ELSE IndexOf(order, a)
    IN [heap |-> [n \in 1..Len(order) |->
                    [h[order[n]] EXCEPT
                        !.children = [j \in 1..Len(@) |-> NewAddr(@[j])]]],
        roots |-> [n \in 1..Len(roots) |-> NewAddr(roots[n])]]

(***************************************************************************)
(* The differencer's inputs: parsed JSON documents                         *)
(***************************************************************************)
\* most children a generated container has
MaxLen == 2

SeqsUpTo(S, n) == UNION {[1..m -> S] : m \in 0..n}

InjectiveSeqsUpTo(S, n) ==
    {ks \in SeqsUpTo(S, n) : \A i, j \in 1..Len(ks) : ks[i] = ks[j] => i = j}

Scalars ==
    {JNull, JBool(FALSE), JNum(FALSE, 0), JNum(TRUE, 0), JNum(FALSE, 1), JStr(<<"0">>)}

ElemScalars == {JNull, JNum(FALSE, 0), JStr(<<"0">>)}

\* "a", "b" and "a.b"
Keys == {<<"a">>, <<"b">>, <<"a", ".", "b">>}

\* the empty key, "a b" and "a["
OddKeys == {<<>>, <<"a", " ", "b">>, <<"a", "[">>}

ObjectOf(ks, xs) == JObj([i \in 1..Len(ks) |-> Prop(ks[i], xs[i])])

ArraysOver(S, n) == {JArr(xs) : xs \in SeqsUpTo(S, n)}

ObjectsOver(K, S, n) ==
    UNION {{ObjectOf(ks, xs) : xs \in [1..Len(ks) -> S]} : ks \in InjectiveSeqsUpTo(K, n)}

FlatValues == ArraysOver(ElemScalars, MaxLen) \cup ObjectsOver(Keys, ElemScalars, MaxLen)

InnerValues == ArraysOver(ElemScalars, 1) \cup ObjectsOver(Keys, ElemScalars, 1)

NestedValues == ArraysOver(InnerValues, 1) \cup ObjectsOver(Keys, InnerValues, 1)

OddKeyValues == ObjectsOver(OddKeys, {JNull, JNum(FALSE, 0)}, 1)

\* {"a.b": x, "a": {"b": y}}: a dotted key beside a nested one
DottedValues ==
    {ObjectOf(<<<<"a", ".", "b">>, <<"a">>>>, <<x, ObjectOf(<<<<"b">>>>, <<y>>)>>) :
        x \in {JNull, JNum(FALSE, 0)}, y \in {JNull, JNum(FALSE, 0)}}

JsonValues == Scalars \cup FlatValues \cup NestedValues \cup OddKeyValues \cup DottedValues

(***************************************************************************)
(* The locator's inputs: texts JSON.parse rejects, and what it says        *)
(***************************************************************************)
\* longest text
MaxText == 3

\* largest offset, line or column a parser message reports
MaxReported == 4

\* texts over "{" and the newline: none of them is a JSON document
Texts == SeqsUpTo({"{", "\n"}, MaxText)

\* "Unexpected token { in JSON at position N" (V8)
PositionMessage(n) ==
    <<Word("Unexpected"), Word("token"), Word("{"), Word("in"), Word("JSON"),
      Word("at"), Word("position"), Num(n)>>

\* "JSON.parse: unexpected character at line L column C of the JSON data"
\* (SpiderMonkey)
LineColumnMessage(l, c) ==
    <<Word("JSON.parse:"), Word("unexpected"), Word("character"), Word("at"),
      Word("line"), Num(l), Word("column"), Num(c), Word("of"), Word("the"),
      Word("JSON"), Word("data")>>

\* "Unexpected end of JSON input"
PlainMessage == <<Word("Unexpected"), Word("end"), Word("of"), Word("JSON"), Word("input")>>

\* "... at position -1": \d+ does not match a sign, no regex finds a number
NegativePositionMessage ==
    <<Word("Unexpected"), Word("token"), Word("{"), Word("in"), Word("JSON"),
      Word("at"), Word("position"), Word("-1")>>

ParserMessages ==
    {PositionMessage(n) : n \in 0..MaxReported}
        \cup {NegativePositionMessage}
        \cup {LineColumnMessage(l, c) : l \in 0..MaxReported, c \in 0..MaxReported}
        \cup {PlainMessage}

NoLocation == ParsedLocation(0, 0, 0)

NoIssue == [line |-> 0, column |-> 0, offset |-> 0, message |-> <<>>]

(***************************************************************************)
(* Compare: both documents parsed, then diffJsonValues(left, right)        *)
(***************************************************************************)
DiffIdle ==
    /\ left = Undefined
    /\ right = Undefined
    /\ differences = <<>>
    /\ diffPc = "idle"

LocIdle ==
    /\ text = <<>>
    /\ locOffset = 0
    /\ location = NoLocation
    /\ roundTrip = 0
    /\ message = <<>>
    /\ issue = NoIssue
    /\ locPc = "idle"

NoOp == [op |-> "none", id |-> <<>>]

ScaffoldIdle ==
    /\ heap = <<>>
    /\ rootNode = 0
    /\ nodeCounter = 0
    /\ heldRoot = 0
    /\ heldTree = NoTree
    /\ lastOp = NoOp
    /\ opCount = 0

NoCall == [called |-> FALSE, left |-> Undefined, right |-> Undefined]

CompareIdle ==
    /\ page = "none"
    /\ leftInput = <<>>
    /\ rightInput = <<>>
    /\ comparePressed = FALSE
    /\ error = <<>>
    /\ leftValue = JNull
    /\ rightValue = JNull
    /\ shownDifferences = <<>>
    /\ diffCall = NoCall

NoJob == [id |-> 0, status |-> "none"]

NoRequest == [state |-> "none", job |-> 0]

NoEvent == [ev |-> "none", job |-> 0, status |-> "none"]

TtsIdle ==
    /\ mounted = FALSE
    /\ activeJob = NoJob
    /\ isSubmitting = FALSE
    /\ requestError = FALSE
    /\ pollRef = 0
    /\ timers = {}
    /\ createReq = NoRequest
    /\ polls = {}
    /\ responses = {}
    /\ backend = <<>>
    /\ reported = {}
    /\ ttsEvent = NoEvent

DiffInit ==
    /\ left \in JsonValues
    /\ right \in JsonValues
    /\ differences = <<>>
    /\ diffPc = "input"
    /\ LocIdle
    /\ ScaffoldIdle
    /\ CompareIdle
    /\ TtsIdle

RunDiff ==
    /\ diffPc = "input"
    /\ differences' = diffJsonValues(left, right, RootPath)
    /\ diffPc' = "compared"
    /\ UNCHANGED <<left, right>>
    /\ UNCHANGED locVars
    /\ UNCHANGED scaffoldVars
    /\ UNCHANGED compareVars
    /\ UNCHANGED ttsVars

DiffNext == RunDiff

SpecDiff == DiffInit /\ [][DiffNext]_vars

(***************************************************************************)
(* Validate: a rejected text, located and reported                         *)
(***************************************************************************)
LocInit ==
    /\ text \in Texts
    /\ locOffset = 0
    /\ location = NoLocation
    /\ roundTrip = 0
    /\ message = <<>>
    /\ issue = NoIssue
    /\ locPc = "input"
    /\ DiffIdle
    /\ ScaffoldIdle
    /\ CompareIdle
    /\ TtsIdle

\* offset -> (line, column) -> offset
Locate ==
    /\ locPc = "input"
    /\ \E o \in (0 - 1)..(Len(text) + 1) :
          /\ locOffset' = o
          /\ location' = getLineColumnFromOffset(text, o)
          /\ roundTrip' = getOffsetFromLineColumn(text, location'.line, location'.column)
    /\ locPc' = "located"
    /\ UNCHANGED <<text, message, issue>>
    /\ UNCHANGED diffVars
    /\ UNCHANGED scaffoldVars
    /\ UNCHANGED compareVars
    /\ UNCHANGED ttsVars

\* validateJson(text): JSON.parse throws, the catch builds the issue
ValidateJson ==
    /\ locPc = "input"
    /\ \E msg \in ParserMessages :
          /\ message' = msg
          /\ issue' = createParseIssue(text, msg)
    /\ locPc' = "validated"
    /\ UNCHANGED <<text, locOffset, location, roundTrip>>
    /\ UNCHANGED diffVars
    /\ UNCHANGED scaffoldVars
    /\ UNCHANGED compareVars
    /\ UNCHANGED ttsVars

LocNext == Locate \/ ValidateJson

SpecLocator == LocInit /\ [][LocNext]_vars

(***************************************************************************)
(* JsonScaffoldBuilder: the root in React state and its handlers           *)
(***************************************************************************)
\* handlers run in one session
MaxOps == 3

\* what the user types into a field-name input: a blank, and " name" (a
\* name with a leading blank)
KeyInputs == {<<" ">>, <<" ", "n", "a", "m", "e">>}

\* the types the user picks in the select: a scalar and both containers
\* (string, number and boolean nodes come with the default tree and addChild)
TypeInputs == {"null", "object", "array"}

\* the ids a handler is called with: the root's, the first id ever issued
\* (stale after a reset), the id issued last (the node added last, stale once
\* that node is removed) and one never issued
IdInputs ==
    {heap[rootNode].id, createNodeId(1), createNodeId(nodeCounter),
     createNodeId(nodeCounter + 1)}

EditorOps == {"setNodeType", "setNodeKey", "addChild", "removeNode"}

\* useState(() => createInitialScaffold()) on the first mount
ScaffoldInit ==
    /\ LET r == createInitialScaffold(<<>>, 0)
       IN /\ heap = r.heap
          /\ rootNode = r.node
          /\ nodeCounter = r.counter
    /\ heldRoot = 0
    /\ heldTree = NoTree
    /\ lastOp = NoOp
    /\ opCount = 0
    /\ DiffIdle
    /\ LocIdle
    /\ CompareIdle
    /\ TtsIdle

\* setRootNode(r.node): the new root replaces the old one in the state
SetRootNode(r, op, id) ==
    LET c == Compact(r.heap, <<heldRoot, r.node>>)
    IN /\ heap' = c.heap
       /\ heldRoot' = c.roots[1]
       /\ rootNode' = c.roots[2]
       /\ nodeCounter' = r.counter
       /\ lastOp' = [op |-> op, id |-> id]
       /\ opCount' = opCount + 1
       /\ UNCHANGED heldTree
       /\ UNCHANGED diffVars
       /\ UNCHANGED locVars
       /\ UNCHANGED compareVars
       /\ UNCHANGED ttsVars

onNodeTypeChange ==
    /\ opCount < MaxOps
    /\ \E id \in IdInputs, type \in TypeInputs :
          SetRootNode(updateScaffoldNodeType(heap, rootNode, id, type, nodeCounter),
                      "setNodeType", id)

onNodeKeyChange ==
    /\ opCount < MaxOps
    /\ \E id \in IdInputs, key \in KeyInputs :
          SetRootNode(updateScaffoldNodeKey(heap, rootNode, id, key, nodeCounter),
                      "setNodeKey", id)

onAddChild ==
    /\ opCount < MaxOps
    /\ \E id \in IdInputs :
          SetRootNode(addScaffoldChild(heap, rootNode, id, nodeCounter), "addChild", id)

onRemove ==
    /\ opCount < MaxOps
    /\ \E id \in IdInputs :
          SetRootNode(removeScaffoldNode(heap, rootNode, id, nodeCounter), "removeNode", id)

\* a reset that starts the ids over
handleResetRestartingIds ==
    /\ opCount < MaxOps
    /\ SetRootNode(createInitialScaffold(heap, 0), "reset", <<>>)

handleReset ==
    /\ opCount < MaxOps
    /\ SetRootNode(createInitialScaffold(heap, nodeCounter), "reset", <<>>)

\* a caller keeps the root it was handed (a render closure, the preview memo)
HoldRoot ==
    /\ heldRoot = 0
    /\ LET c == Compact(heap, <<rootNode, rootNode>>)
       IN /\ heap' = c.heap
          /\ heldRoot' = c.roots[1]
          /\ rootNode' = c.roots[2]
    /\ heldTree' = TreeOf(heap, rootNode)
    /\ UNCHANGED <<nodeCounter, lastOp, opCount>>
    /\ UNCHANGED diffVars
    /\ UNCHANGED locVars
    /\ UNCHANGED compareVars
    /\ UNCHANGED ttsVars

Next ==
    \/ onNodeTypeChange
    \/ onNodeKeyChange
    \/ onAddChild
    \/ onRemove
    \/ handleReset
    \/ HoldRoot

Spec == ScaffoldInit /\ [][Next]_vars

(***************************************************************************)
(* The compare UI: JsonToolkit (compare mode) and JsonComparePage          *)
(***************************************************************************)
\* {"name":"Alice","role":"developer","flags":{"beta":true}}
\* (JsonToolkit holds the same two documents, indented)
LEFT_SAMPLE ==
    JsonStringify(
        JObj(<<Prop(NameKey, JStr(<<"A", "l", "i", "c", "e">>)),
               Prop(<<"r", "o", "l", "e">>, JStr(<<"d", "e", "v", "e", "l", "o", "p", "e", "r">>)),
               Prop(<<"f", "l", "a", "g", "s">>, JObj(<<Prop(<<"b", "e", "t", "a">>, JBool(TRUE))>>))>>))

\* {"name":"Alice","role":"lead developer","flags":{"beta":false,"new_ui":true}}
RIGHT_SAMPLE ==
    JsonStringify(
        JObj(<<Prop(NameKey, JStr(<<"A", "l", "i", "c", "e">>)),
               Prop(<<"r", "o", "l", "e">>, JStr(<<"l", "e", "a", "d", " ", "d", "e", "v", "e", "l", "o", "p", "e", "r">>)),
               Prop(<<"f", "l", "a", "g", "s">>,
                    JObj(<<Prop(<<"b", "e", "t", "a">>, JBool(FALSE)),
                           Prop(<<"n", "e", "w", "_", "u", "i">>, JBool(TRUE))>>))>>))

\* the documents the inputs can spell: null, 0, [0], {}, {"a":0,"b":0} and
\* {"b":0,"a":0}, and the two samples
ParseDomain ==
    {JNull, JNum(FALSE, 0), JArr(<<JNum(FALSE, 0)>>), JObj(<<>>),
     ObjectOf(<<<<"a">>, <<"b">>>>, <<JNum(FALSE, 0), JNum(FALSE, 0)>>),
     ObjectOf(<<<<"b">>, <<"a">>>>, <<JNum(FALSE, 0), JNum(FALSE, 0)>>),
     JObj(<<Prop(NameKey, JStr(<<"A", "l", "i", "c", "e">>)),
            Prop(<<"r", "o", "l", "e">>, JStr(<<"d", "e", "v", "e", "l", "o", "p", "e", "r">>)),
            Prop(<<"f", "l", "a", "g", "s">>, JObj(<<Prop(<<"b", "e", "t", "a">>, JBool(TRUE))>>))>>),
     JObj(<<Prop(NameKey, JStr(<<"A", "l", "i", "c", "e">>)),
            Prop(<<"r", "o", "l", "e">>, JStr(<<"l", "e", "a", "d", " ", "d", "e", "v", "e", "l", "o", "p", "e", "r">>)),
            Prop(<<"f", "l", "a", "g", "s">>,
                 JObj(<<Prop(<<"b", "e", "t", "a">>, JBool(FALSE)),
                        Prop(<<"n", "e", "w", "_", "u", "i">>, JBool(TRUE))>>))>>)}

\* "{" and the empty text: JSON.parse throws on both
MalformedTexts == {<<"{">>, <<>>}

\* what the user can have in an input
InputTexts == {JsonStringify(v) : v \in ParseDomain} \cup MalformedTexts

\* JSON.parse(input): the document the text spells, or a SyntaxError with
\* its message
JSON_parse(input) ==
    IF \E v \in ParseDomain : JsonStringify(v) = input
    THEN [ok |-> TRUE, value |-> CHOOSE v \in ParseDomain : JsonStringify(v) = input,
          message |-> <<>>]
    ELSE [ok |-> FALSE, value |-> Undefined, message |-> PlainMessage]

validateJson(input) ==
    LET parsed == JSON_parse(input)
    IN IF parsed.ok
       THEN [ok |-> TRUE, value |-> parsed.value, issue |-> NoIssue]
       ELSE [ok |-> FALSE, value |-> Undefined,
             issue |-> createParseIssue(input, parsed.message)]

DiffCall(l, r) == [called |-> TRUE, left |-> l, right |-> r]

\* JsonToolkit's `differences` useMemo, run by a render whose dependencies
\* (comparePressed, leftValidation, rightValidation) changed
ToolkitDifferences(pressed, l, r) ==
    LET leftValidation == validateJson(l)
        rightValidation == validateJson(r)
    IN IF ~pressed \/ ~leftValidation.ok \/ ~rightValidation.ok
       THEN [differences |-> <<>>, call |-> NoCall]
       ELSE [differences |-> diffJsonValues(leftValidation.value, rightValidation.value, RootPath),
             call |-> DiffCall(leftValidation.value, rightValidation.value)]

\* JsonComparePage's `differences` useMemo
PageDifferences(pressed, err, l, r) ==
    IF ~pressed \/ err # <<>>
    THEN [differences |-> <<>>, call |-> NoCall]
    ELSE [differences |-> diffJsonValues(l, r, RootPath), call |-> DiffCall(l, r)]

\* a state value is a new dependency for useMemo (Object.is): a parsed
\* array or object is a new object each time, a primitive is compared by value
IsNewDependency(old, new) == new.t \in {"array", "object"} \/ new # old

\* the render after a state change: the memo runs again only when one of
\* its dependencies changed
RenderMemo(depsChanged, memo) ==
    IF depsChanged
    THEN /\ shownDifferences' = memo.differences
         /\ diffCall' = memo.call
    ELSE /\ shownDifferences' = shownDifferences
         /\ diffCall' = NoCall

OthersIdle ==
    /\ UNCHANGED diffVars
    /\ UNCHANGED locVars
    /\ UNCHANGED scaffoldVars
    /\ UNCHANGED ttsVars

\* either component mounts with the samples in its inputs
CompareInit ==
    /\ page \in {"JsonToolkit", "JsonComparePage"}
    /\ leftInput = LEFT_SAMPLE
    /\ rightInput = RIGHT_SAMPLE
    /\ comparePressed = FALSE
    /\ error = <<>>
    /\ leftValue = JNull
    /\ rightValue = JNull
    /\ shownDifferences = <<>>
    /\ diffCall = NoCall
    /\ DiffIdle
    /\ LocIdle
    /\ ScaffoldIdle
    /\ TtsIdle

\* JsonToolkit: the user edits the left or the right editor
ToolkitSetInput ==
    /\ page = "JsonToolkit"
    /\ \E side \in {"left", "right"}, value \in InputTexts :
          /\ leftInput' = IF side = "left" THEN value ELSE leftInput
          /\ rightInput' = IF side = "right" THEN value ELSE rightInput
          /\ RenderMemo(leftInput' # leftInput \/ rightInput' # rightInput,
                        ToolkitDifferences(comparePressed, leftInput', rightInput'))
    /\ UNCHANGED <<page, comparePressed, error, leftValue, rightValue>>
    /\ OthersIdle

\* JsonToolkit: the Compare button
ToolkitCompare ==
    /\ page = "JsonToolkit"
    /\ comparePressed' = TRUE
    /\ RenderMemo(~comparePressed, ToolkitDifferences(TRUE, leftInput, rightInput))
    /\ UNCHANGED <<page, leftInput, rightInput, error, leftValue, rightValue>>
    /\ OthersIdle

\* JsonToolkit: handleLoadSample
handleLoadSample ==
    /\ page = "JsonToolkit"
    /\ leftInput' = LEFT_SAMPLE
    /\ rightInput' = RIGHT_SAMPLE
    /\ comparePressed' = FALSE
    /\ RenderMemo(comparePressed \/ leftInput # LEFT_SAMPLE \/ rightInput # RIGHT_SAMPLE,
                  ToolkitDifferences(FALSE, LEFT_SAMPLE, RIGHT_SAMPLE))
    /\ UNCHANGED <<page, error, leftValue, rightValue>>
    /\ OthersIdle

\* JsonComparePage: the user edits the left or the right textarea
PageSetInput ==
    /\ page = "JsonComparePage"
    /\ \E side \in {"left", "right"}, value \in InputTexts :
          /\ leftInput' = IF side = "left" THEN value ELSE leftInput
          /\ rightInput' = IF side = "right" THEN value ELSE rightInput
    /\ RenderMemo(FALSE, PageDifferences(comparePressed, error, leftValue, rightValue))
    /\ UNCHANGED <<page, comparePressed, error, leftValue, rightValue>>
    /\ OthersIdle

\* JsonComparePage: runCompare, the Compare button
runCompare ==
    /\ page = "JsonComparePage"
    /\ comparePressed' = TRUE
    /\ LET parsedLeft == JSON_parse(leftInput)
           parsedRight == JSON_parse(rightInput)
       IN IF parsedLeft.ok /\ parsedRight.ok
          THEN /\ leftValue' = parsedLeft.value
               /\ rightValue' = parsedRight.value
               /\ error' = <<>>
          ELSE /\ error' = (IF parsedLeft.ok THEN parsedRight.message ELSE parsedLeft.message)
               /\ leftValue' = JNull
               /\ rightValue' = JNull
    /\ RenderMemo(\/ ~comparePressed
                  \/ error' # error
                  \/ IsNewDependency(leftValue, leftValue')
                  \/ IsNewDependency(rightValue, rightValue'),
                  PageDifferences(TRUE, error', leftValue', rightValue'))
    /\ UNCHANGED <<page, leftInput, rightInput>>
    /\ OthersIdle

\* Load Sample leaving the error of the last Compare in place
PageLoadSampleKeepingError ==
    /\ page = "JsonComparePage"
    /\ leftInput' = LEFT_SAMPLE
    /\ rightInput' = RIGHT_SAMPLE
    /\ comparePressed' = FALSE
    /\ RenderMemo(comparePressed, PageDifferences(FALSE, error, leftValue, rightValue))
    /\ UNCHANGED <<page, error, leftValue, rightValue>>
    /\ OthersIdle

\* JsonComparePage: the Load Sample button
PageLoadSample ==
    /\ page = "JsonComparePage"
    /\ leftInput' = LEFT_SAMPLE
    /\ rightInput' = RIGHT_SAMPLE
    /\ comparePressed' = FALSE
    /\ error' = <<>>
    /\ RenderMemo(comparePressed \/ error # <<>>,
                  PageDifferences(FALSE, <<>>, leftValue, rightValue))
    /\ UNCHANGED <<page, leftValue, rightValue>>
    /\ OthersIdle

CompareNext ==
    \/ ToolkitSetInput
    \/ ToolkitCompare
    \/ handleLoadSample
    \/ PageSetInput
    \/ runCompare
    \/ PageLoadSample

SpecCompare == CompareInit /\ [][CompareNext]_vars

(***************************************************************************)
(* useTtsJob: one job created by POST, then polled by an interval          *)
(***************************************************************************)
\* jobs the backend accepts in one session
MaxJobs == 2

\* data.status === "done" taken for the only final status
IsTerminalDoneOnly(status) == status = "done"

\* data.status === "done" || data.status === "error"
IsTerminal(status) == status \in {"done", "error"}

Event(ev, job, status) == [ev |-> ev, job |-> job, status |-> status]

\* clearPolling(): the interval pollRef.current names is cancelled
TimersAfterClearPolling == IF pollRef # 0 THEN timers \ {pollRef} ELSE timers

\* a setState call: React drops it once the component is unmounted
SetState(current, next) == IF mounted THEN next ELSE current

OutsideTts ==
    /\ UNCHANGED diffVars
    /\ UNCHANGED locVars
    /\ UNCHANGED scaffoldVars
    /\ UNCHANGED compareVars

\* the page mounts: useState(null), useState(false), useRef(null)
TtsInit ==
    /\ mounted = TRUE
    /\ activeJob = NoJob
    /\ isSubmitting = FALSE
    /\ requestError = FALSE
    /\ pollRef = 0
    /\ timers = {}
    /\ createReq = NoRequest
    /\ polls = {}
    /\ responses = {}
    /\ backend = <<>>
    /\ reported = {}
    /\ ttsEvent = NoEvent
    /\ DiffIdle
    /\ LocIdle
    /\ ScaffoldIdle
    /\ CompareIdle

\* createJob up to its first await; the Generate button is disabled while
\* isSubmitting
createJob ==
    /\ mounted
    /\ ~isSubmitting
    /\ Len(backend) < MaxJobs
    /\ requestError' = FALSE
    /\ isSubmitting' = TRUE
    /\ timers' = TimersAfterClearPolling
    /\ pollRef' = 0
    /\ createReq' = [state |-> "sent", job |-> 0]
    /\ ttsEvent' = Event("createJob", 0, "none")
    /\ UNCHANGED <<mounted, activeJob, polls, responses, backend, reported>>
    /\ OutsideTts

\* POST /api/tts/jobs at the backend: the job is queued and answered
ServerCreatesJob ==
    /\ createReq.state = "sent"
    /\ backend' = Append(backend, "queued")
    /\ createReq' = [state |-> "answered", job |-> Len(backend) + 1]
    /\ ttsEvent' = Event("serverCreates", Len(backend) + 1, "queued")
    /\ UNCHANGED <<mounted, activeJob, isSubmitting, requestError, pollRef, timers,
                   polls, responses, reported>>
    /\ OutsideTts

\* createJob after the awaits, the response being ok
CreateResponse ==
    /\ createReq.state = "answered"
    /\ activeJob' = SetState(activeJob, [id |-> createReq.job, status |-> "queued"])
    /\ pollRef' = createReq.job
    /\ timers' = timers \cup {createReq.job}
    /\ isSubmitting' = SetState(isSubmitting, FALSE)
    /\ createReq' = NoRequest
    /\ ttsEvent' = Event("createResponse", createReq.job, "queued")
    /\ UNCHANGED <<mounted, requestError, polls, responses, backend, reported>>
    /\ OutsideTts

\* createJob's catch: fetch rejected or the response was not ok
CreateFails ==
    /\ createReq.state \in {"sent", "answered"}
    /\ requestError' = SetState(requestError, TRUE)
    /\ isSubmitting' = SetState(isSubmitting, FALSE)
    /\ createReq' = NoRequest
    /\ ttsEvent' = Event("createFails", 0, "none")
    /\ UNCHANGED <<mounted, activeJob, pollRef, timers, polls, responses, backend, reported>>
    /\ OutsideTts

\* an interval fires: void fetchJob(data.id) sends its GET
Tick ==
    /\ \E job \in timers :
          /\ polls' = polls \cup {job}
          /\ ttsEvent' = Event("tick", job, "none")
    /\ UNCHANGED <<mounted, activeJob, isSubmitting, requestError, pollRef, timers,
                   createReq, responses, backend, reported>>
    /\ OutsideTts

\* GET /api/tts/jobs/{id} at the backend: answered with the job as it is
ServerAnswersPoll ==
    /\ \E job \in polls :
          /\ polls' = polls \ {job}
          /\ responses' = responses \cup {[job |-> job, status |-> backend[job]]}
          /\ ttsEvent' = Event("serverAnswers", job, backend[job])
    /\ UNCHANGED <<mounted, activeJob, isSubmitting, requestError, pollRef, timers,
                   createReq, backend, reported>>
    /\ OutsideTts

\* fetchJob throws (the response is not ok): nobody catches it
PollFails ==
    /\ \E job \in polls :
          /\ polls' = polls \ {job}
          /\ ttsEvent' = Event("pollFails", job, "none")
    /\ UNCHANGED <<mounted, activeJob, isSubmitting, requestError, pollRef, timers,
                   createReq, responses, backend, reported>>
    /\ OutsideTts

\* fetchJob after its awaits
PollResponse ==
    /\ \E data \in responses :
          /\ responses' = responses \ {data}
          /\ activeJob' = SetState(activeJob, [id |-> data.job, status |-> data.status])
          /\ IF IsTerminal(data.status)
             THEN /\ timers' = TimersAfterClearPolling
                  /\ pollRef' = 0
                  /\ reported' = reported \cup {data.job}
             ELSE UNCHANGED <<timers, pollRef, reported>>
          /\ ttsEvent' = Event("pollResponse", data.job, data.status)
    /\ UNCHANGED <<mounted, isSubmitting, requestError, createReq, polls, backend>>
    /\ OutsideTts

\* the backend worker: queued -> processing -> done or error
BackendProgress ==
    /\ \E job \in 1..Len(backend), next \in {"processing", "done", "error"} :
          /\ \/ backend[job] = "queued" /\ next = "processing"
             \/ backend[job] = "processing" /\ next \in {"done", "error"}
          /\ backend' = [backend EXCEPT ![job] = next]
          /\ ttsEvent' = Event("backend", job, next)
    /\ UNCHANGED <<mounted, activeJob, isSubmitting, requestError, pollRef, timers,
                   createReq, polls, responses, reported>>
    /\ OutsideTts

\* clearJob, the Clear Job button under the audio player
clearJob ==
    /\ mounted
    /\ activeJob.status = "done"
    /\ activeJob' = NoJob
    /\ ttsEvent' = Event("clearJob", 0, "none")
    /\ UNCHANGED <<mounted, isSubmitting, requestError, pollRef, timers, createReq,
                   polls, responses, backend, reported>>
    /\ OutsideTts

\* the page unmounts: the effect's cleanup is clearPolling
Unmount ==
    /\ mounted
    /\ mounted' = FALSE
    /\ timers' = TimersAfterClearPolling
    /\ pollRef' = 0
    /\ ttsEvent' = Event("unmount", 0, "none")
    /\ UNCHANGED <<activeJob, isSubmitting, requestError, createReq, polls, responses,
                   backend, reported>>
    /\ OutsideTts

TtsNext ==
    \/ createJob
    \/ ServerCreatesJob
    \/ CreateResponse
    \/ CreateFails
    \/ Tick
    \/ ServerAnswersPoll
    \/ PollFails
    \/ PollResponse
    \/ BackendProgress
    \/ clearJob
    \/ Unmount

SpecTts == TtsInit /\ [][TtsNext]_vars

\* the interval keeps firing, the backend keeps working and answering, and
\* poll requests get through
SpecTtsFair ==
    /\ TtsInit
    /\ [][TtsNext]_vars
    /\ WF_vars(Tick)
    /\ WF_vars(BackendProgress)
    /\ SF_vars(ServerAnswersPoll)
    /\ WF_vars(PollResponse)

(***************************************************************************)
(* Properties of the differencer                                           *)
(***************************************************************************)
\* deep equality of two parsed documents: the same type and value, arrays
\* element by element, objects as key-to-value maps whatever the order of
\* their keys (numbers by SameValue, as assert.deepStrictEqual has it)
RECURSIVE DeepEqual(_, _)
DeepEqual(a, b) ==
    /\ a.t = b.t
    /\ CASE a.t = "array" ->
              /\ Len(a.v) = Len(b.v)
              /\ \A i \in 1..Len(a.v) : DeepEqual(a.v[i], b.v[i])
         [] a.t = "object" ->
              /\ Range(ObjectKeys(a)) = Range(ObjectKeys(b))
              /\ \A k \in Range(ObjectKeys(a)) :
                    DeepEqual(PropertyGet(a, k), PropertyGet(b, k))
         [] OTHER -> a.v = b.v

IdStart == Range(Lower) \cup {"_", "$"}

IdPart == IdStart \cup Range(Digits)

IsIdentifier(s) == s # <<>> /\ s[1] \in IdStart /\ \A i \in 1..Len(s) : s[i] \in IdPart

RECURSIVE DropWhile(_, _)
DropWhile(s, S) ==
    IF s # <<>> /\ Head(s) \in S THEN DropWhile(Tail(s), S) ELSE s

\* ( "." identifier | "[" integer "]" )*
RECURSIVE IsSegments(_)
IsSegments(s) ==
    IF s = <<>> THEN TRUE
    ELSE IF Head(s) = "."
    THEN /\ Tail(s) # <<>>
         /\ Head(Tail(s)) \in IdStart
         /\ IsSegments(DropWhile(Tail(s), IdPart))
    ELSE IF Head(s) = "["
    THEN LET rest == DropWhile(Tail(s), Range(Digits))
         IN /\ Tail(s) # <<>>
            /\ Head(Tail(s)) \in Range(Digits)
            /\ rest # <<>>
            /\ Head(rest) = "]"
            /\ IsSegments(Tail(rest))
    ELSE FALSE

\* "$" ( "." identifier | "[" integer "]" )*
MatchesPathGrammar(path) == path # <<>> /\ Head(path) = "$" /\ IsSegments(Tail(path))

RECURSIVE AllKeysIdentifiers(_)
AllKeysIdentifiers(value) ==
    CASE value.t = "array" -> \A i \in 1..Len(value.v) : AllKeysIdentifiers(value.v[i])
      [] value.t = "object" ->
            \A i \in 1..Len(value.v) :
                IsIdentifier(value.v[i].k) /\ AllKeysIdentifiers(value.v[i].val)
      [] OTHER -> TRUE

SwapSides(ds) ==
    [i \in 1..Len(ds) |-> [path |-> ds[i].path, left |-> ds[i].right, right |-> ds[i].left]]

\* C1: the diff of two deep-equal documents is empty, also when their
\* objects list the same key/value pairs in a different insertion order.
C1_DiffOfEqualIsEmpty ==
    (diffPc = "compared" /\ DeepEqual(left, right)) => differences = <<>>

\* C1 witness: two deep-equal objects whose keys were inserted in a different
\* order have been compared.
C1_Witness ==
    /\ diffPc = "compared"
    /\ isObject(left)
    /\ Len(left.v) >= 2
    /\ DeepEqual(left, right)
    /\ left # right

\* C2: for documents that differ, diff(a, b) and diff(b, a) list the same
\* paths in the same order, each entry with left and right swapped.
C2_DiffIsSymmetric ==
    (diffPc = "compared" /\ ~DeepEqual(left, right))
        => diffJsonValues(right, left, RootPath) = SwapSides(differences)

\* C2 witness: two objects with different key orders were compared and differ
\* at two paths or more.
C2_Witness ==
    /\ diffPc = "compared"
    /\ isObject(left)
    /\ isObject(right)
    /\ Len(left.v) >= 2
    /\ ObjectKeys(left) # ObjectKeys(right)
    /\ Len(differences) >= 2

\* C3 as stated: every emitted path matches "$" ("." identifier | "[" integer
\* "]")*, whatever keys the documents hold.
C3_PathsMatchGrammar ==
    diffPc = "compared" => \A i \in 1..Len(differences) : MatchesPathGrammar(differences[i].path)

\* C3 amended: when every object key of both documents is an identifier,
\* every emitted path matches the grammar.
C3_PathsMatchGrammarForIdentifierKeys ==
    (diffPc = "compared" /\ AllKeysIdentifiers(left) /\ AllKeysIdentifiers(right))
        => \A i \in 1..Len(differences) : MatchesPathGrammar(differences[i].path)

\* C3 witness: a difference below an identifier key and an array index has
\* been reported.
C3_Witness ==
    /\ diffPc = "compared"
    /\ AllKeysIdentifiers(left)
    /\ AllKeysIdentifiers(right)
    /\ \E i \in 1..Len(differences) :
          /\ Len(differences[i].path) >= 6
          /\ "[" \in Range(differences[i].path)
          /\ "." \in Range(differences[i].path)


(***************************************************************************)
(* Properties of the locator                                               *)
(***************************************************************************)
\* the number of newlines among the first o characters of s
NewlinesBefore(s, o) == Cardinality({i \in 1..o : s[i] = "\n"})

\* the 1-based index of the last newline among the first o characters, or 0
LastNewlineBefore(s, o) ==
    LET nl == {i \in 1..o : s[i] = "\n"}
    IN IF nl = {} THEN 0 ELSE CHOOSE i \in nl : \A j \in nl : j <= i

LineAt(s, o) == 1 + NewlinesBefore(s, o)

ColumnAt(s, o) == 1 + (o - LastNewlineBefore(s, o))

\* C4: an offset within the text, converted to (line, column) and back, is
\* the same offset again.
C4_LocatorRoundTrip ==
    (locPc = "located" /\ 0 <= locOffset /\ locOffset <= Len(text))
        => roundTrip = locOffset

\* C4 witness: the end of a text that ends in a newline has been located.
C4_Witness ==
    /\ locPc = "located"
    /\ Len(text) >= 2
    /\ text[Len(text)] = "\n"
    /\ locOffset = Len(text)
    /\ location.line >= 2

\* C5: the offset of a parse issue and its (line, column) agree: scanning the
\* text up to the offset gives that line and that column.
C5_IssueOffsetMatchesLineColumn ==
    locPc = "validated"
        => /\ issue.offset \in 0..Len(text)
           /\ issue.line = LineAt(text, issue.offset)
           /\ issue.column = ColumnAt(text, issue.offset)

\* C11: every location handed out has line >= 1, column >= 1 and an offset
\* within 0..len(text), whatever position was reported (negative, past the
\* end, a line or column of 0 or beyond the text); an offset past the end
\* comes back as len(text).
C11_IssueWithinText ==
    /\ locPc = "validated" =>
          /\ issue.line >= 1
          /\ issue.column >= 1
          /\ issue.offset \in 0..Len(text)
          /\ (PositionMatch(message) # 0 /\ message[PositionMatch(message) + 1].n > Len(text))
                => issue.offset = Len(text)
    /\ locPc = "located" =>
          /\ location.line >= 1
          /\ location.column >= 1
          /\ location.offset \in 0..Len(text)
          /\ locOffset > Len(text) => location.offset = Len(text)

\* C11 witness: the parser reported a position past the end of a text that
\* is not empty.
C11_Witness ==
    /\ locPc = "validated"
    /\ text # <<>>
    /\ PositionMatch(message) # 0
    /\ message[PositionMatch(message) + 1].n > Len(text)

\* a position or a line/column pair is still spelled out in the message
HasPositionalPhrase(msg) == PositionMatch(msg) # 0 \/ LineColumnMatch(msg) # 0

\* C12 as stated: the message of a parse issue spells out no position, neither
\* "at position N" nor "at line L column C".
C12_MessageHasNoPositionalPhrase ==
    locPc = "validated" => ~HasPositionalPhrase(issue.message)


(***************************************************************************)
(* Properties of the scaffold editor                                       *)
(***************************************************************************)
\* an object node renders to a mapping, an array node to a list, with as many
\* entries as the node has children, at every depth
RECURSIVE ShapeMatches(_, _)
ShapeMatches(h, node) ==
    LET value == scaffoldNodeToJsonValue(h, node)
    IN /\ isContainerType(h[node].type) =>
            /\ value.t = h[node].type
            /\ Len(value.v) = Len(h[node].children)
       /\ \A n \in 1..Len(h[node].children) : ShapeMatches(h, h[node].children[n])

\* C6: whatever the handlers did, the rendered value has the container shape
\* of the tree: as many entries as children, at every depth.
C6_RenderedShapeMatchesTree ==
    rootNode # 0 => ShapeMatches(heap, rootNode)

\* C7: a node of scalar type has no children, in the current tree and in
\* every tree still held.
C7_ScalarsHaveNoChildren ==
    \A a \in 1..Len(heap) : ~isContainerType(heap[a].type) => heap[a].children = <<>>

\* C7 witness: the default root, which had three children, has just been
\* given a scalar type.
C7_Witness ==
    /\ opCount = 1
    /\ lastOp = [op |-> "setNodeType", id |-> createNodeId(1)]
    /\ heap[rootNode].type = "null"

\* C8: no editor operation changes the root's id, and removing the root's own
\* id leaves the whole tree as it was.
C8_RootIndestructible ==
    [][(opCount' = opCount + 1 /\ lastOp'.op \in EditorOps)
          => /\ heap'[rootNode'].id = heap[rootNode].id
             /\ (lastOp'.op = "removeNode" /\ lastOp'.id = heap[rootNode].id)
                    => TreeOf(heap', rootNode') = TreeOf(heap, rootNode)]_vars

\* C8 witness: removeNode has just been called with the id of a root that has
\* children.
C8_Witness ==
    /\ rootNode # 0
    /\ lastOp = [op |-> "removeNode", id |-> heap[rootNode].id]
    /\ heap[rootNode].children # <<>>

\* C9: the tree below a root somebody still holds is what it was when they
\* took it, whatever ran since.
C9_HeldRootUnchanged ==
    heldRoot # 0 => TreeOf(heap, heldRoot) = heldTree

\* C9 witness: two handlers or more ran since the root was taken, the current
\* tree differs from the held one and still shares a node object with it.
C9_Witness ==
    /\ heldRoot # 0
    /\ heldRoot # rootNode
    /\ opCount >= 2
    /\ TreeOf(heap, rootNode) # heldTree
    /\ \E n \in 1..Len(heap[rootNode].children) :
          \E m \in 1..Len(heap[heldRoot].children) :
              heap[rootNode].children[n] = heap[heldRoot].children[m]

\* C10: an editor operation called with an id that is not in the tree leaves
\* the tree as it was, at every depth.
C10_UnknownIdIsNoOp ==
    [][(opCount' = opCount + 1 /\ lastOp'.op \in EditorOps
            /\ lastOp'.id \notin TreeIds(heap, rootNode))
          => /\ TreeOf(heap', rootNode') = TreeOf(heap, rootNode)
             /\ nodeCounter' = nodeCounter]_vars

\* C10 witness: removeNode has just been called with an id never issued, on a
\* tree that has children to lose.
C10_Witness ==
    /\ rootNode # 0
    /\ lastOp = [op |-> "removeNode", id |-> createNodeId(nodeCounter + 1)]
    /\ heap[rootNode].children # <<>>

\* the ids of a tree, parents before children, siblings in their order
PreorderIds(h, node) ==
    [n \in 1..Len(Preorder(h, node)) |-> h[Preorder(h, node)[n]].id]

\* a is b with some elements left out
RECURSIVE IsSubsequence(_, _)
IsSubsequence(a, b) ==
    IF a = <<>> THEN TRUE
    ELSE IF b = <<>> THEN FALSE
    ELSE IF Head(a) = Head(b) THEN IsSubsequence(Tail(a), Tail(b))
    ELSE IsSubsequence(a, Tail(b))

\* C13: the ids in the current tree are pairwise distinct after any handlers
\* and resets, and a node that stays in the tree keeps its id: setNodeKey
\* leaves the ids as they are, setNodeType and removeNode only drop ids (and
\* setNodeType keeps its target's), addChild only adds the one it mints.
C13_IdsDistinctAndStable ==
    /\ [](rootNode # 0 =>
            Cardinality(TreeIds(heap, rootNode)) = Len(Preorder(heap, rootNode)))
    /\ [][(opCount' = opCount + 1 /\ lastOp'.op \in EditorOps)
            => LET before == PreorderIds(heap, rootNode)
                   after == PreorderIds(heap', rootNode')
               IN CASE lastOp'.op = "setNodeKey" -> after = before
                    [] lastOp'.op = "setNodeType" ->
                          /\ IsSubsequence(after, before)
                          /\ lastOp'.id \in Range(before) => lastOp'.id \in Range(after)
                    [] lastOp'.op = "removeNode" -> IsSubsequence(after, before)
                    [] lastOp'.op = "addChild" ->
                          /\ IsSubsequence(before, after)
                          /\ Range(after) \subseteq
                                Range(before) \cup {createNodeId(nodeCounter + 1)}]_vars

\* C13 witness: after a reset a child has been added to the new root, beside
\* the three it came with.
C13_Witness ==
    /\ rootNode # 0
    /\ lastOp.op = "addChild"
    /\ nodeCounter >= 9
    /\ Len(heap[rootNode].children) = 4

(***************************************************************************)
(* More properties of the differencer and the locator                      *)
(***************************************************************************)
\* the same object with its properties inserted in another order
Reorderings(obj) ==
    {JObj([n \in 1..Len(obj.v) |-> obj.v[f[n]]]) :
        f \in {g \in [1..Len(obj.v) -> 1..Len(obj.v)] :
                  \A i, j \in 1..Len(obj.v) : g[i] = g[j] => i = j}}

\* the keys of S in strictly ascending code-unit order
AscendingKeys(S) ==
    CHOOSE ks \in [1..Cardinality(S) -> S] :
        \A i, j \in 1..Cardinality(S) : i < j => StrLess(ks[i], ks[j])

\* C15: for two objects the entries are those of the keys of the union taken
\* in ascending order, each key's entries together, and the list is the same
\* for every insertion order of the keys of either object.
C15_ObjectKeysVisitedSorted ==
    (diffPc = "compared" /\ isObject(left) /\ isObject(right))
        => /\ LET keys == AscendingKeys(Range(ObjectKeys(left)) \cup Range(ObjectKeys(right)))
              IN differences =
                    Concat([n \in 1..Len(keys) |->
                        diffJsonValues(PropertyGet(left, keys[n]), PropertyGet(right, keys[n]),
                                       RootPath \o <<".">> \o keys[n])])
           /\ \A l \in Reorderings(left), r \in Reorderings(right) :
                 diffJsonValues(l, r, RootPath) = differences

\* C15 witness: the left object lists "b" before "a", the right one holds
\* other values, and the entry of "a" comes before the entry of "b".
C15_Witness ==
    /\ diffPc = "compared"
    /\ isObject(left)
    /\ isObject(right)
    /\ ObjectKeys(left) = <<<<"b">>, <<"a">>>>
    /\ Len(differences) = 2
    /\ differences[1].path = <<"$", ".", "a">>
    /\ differences[2].path = <<"$", ".", "b">>

\* the entries of ds whose path is p or runs below p
EntriesAtOrBelow(ds, p) ==
    {n \in 1..Len(ds) :
        /\ Len(ds[n].path) >= Len(p)
        /\ SubSeq(ds[n].path, 1, Len(p)) = p
        /\ Len(ds[n].path) > Len(p) => ds[n].path[Len(p) + 1] \in {".", "["}}

\* C16: for two arrays, every index one side lacks has one entry at "[i]",
\* its shorter side rendered (missing), its other side rendered as the
\* element's JSON, null included; the entries come in index order.
C16_ShorterArraySideIsMissing ==
    (diffPc = "compared" /\ isArray(left) /\ isArray(right))
        => LET m == Min(Len(left.v), Len(right.v))
               n == Max(Len(left.v), Len(right.v))
               At(i) == EntriesAtOrBelow(differences, RootPath \o <<"[">> \o ToDigits(i) \o <<"]">>)
           IN /\ \A i \in m..(n - 1) :
                    \E e \in At(i) :
                        /\ At(i) = {e}
                        /\ differences[e].path = RootPath \o <<"[">> \o ToDigits(i) \o <<"]">>
                        /\ IF Len(left.v) < Len(right.v)
                           THEN /\ differences[e].left = MissingText
                                /\ differences[e].right = JsonStringify(right.v[i + 1])
                           ELSE /\ differences[e].right = MissingText
                                /\ differences[e].left = JsonStringify(left.v[i + 1])
              /\ \A i, j \in 0..(n - 1) :
                    i < j => \A e \in At(i), f \in At(j) : e < f
              /\ \A e \in 1..Len(differences) : \E i \in 0..(n - 1) : e \in At(i)

\* C16 witness: the right array is longer and ends in null; the entry of
\* that index reads (missing) against null.
C16_Witness ==
    /\ diffPc = "compared"
    /\ isArray(left)
    /\ isArray(right)
    /\ Len(left.v) < Len(right.v)
    /\ right.v[Len(right.v)] = JNull
    /\ differences # <<>>
    /\ differences[Len(differences)].left = MissingText
    /\ differences[Len(differences)].right = <<"n", "u", "l", "l">>

\* C17: two values that are not both arrays and not both objects give one
\* entry at their own path when they differ in type or value, none when they
\* are the same, and never an entry below; an absent side counts as a value
\* of its own.
C17_LeafComparison ==
    diffPc = "compared" =>
        \A l \in {left, Undefined}, r \in {right, Undefined} :
            (~(isArray(l) /\ isArray(r)) /\ ~(isObject(l) /\ isObject(r)))
                => diffJsonValues(l, r, RootPath) =
                      IF l = r THEN <<>>
                      ELSE <<[path |-> RootPath, left |-> formatValue(l),
                              right |-> formatValue(r)]>>

\* C17 witness: 0 has been compared with false.
C17_Witness ==
    /\ diffPc = "compared"
    /\ left = JNum(FALSE, 0)
    /\ right = JBool(FALSE)
    /\ Len(differences) = 1

\* C18: for an offset within the text the line is 1 + the newlines before
\* it, the column 1 + the characters since the last of them (or since the
\* start).
C18_LineColumnCountsNewlines ==
    (locPc = "located" /\ 0 <= locOffset /\ locOffset <= Len(text))
        => /\ location.line = 1 + NewlinesBefore(text, locOffset)
           /\ location.column = 1 + (locOffset - LastNewlineBefore(text, locOffset))
           /\ location.offset = locOffset

\* C18 witness: the offset just after a newline that has a character before
\* it and one after it has been located.
C18_Witness ==
    /\ locPc = "located"
    /\ locOffset = 2
    /\ Len(text) = 3
    /\ text[1] # "\n"
    /\ text[2] = "\n"
    /\ location.line = 2
    /\ location.column = 1

\* a position inside a value: the steps that lead to it from the root, each
\* an object key or an array index
KeyStep(k) == [kind |-> "key", key |-> k, index |-> 0]

IndexStep(i) == [kind |-> "index", key |-> <<>>, index |-> i]

RECURSIVE Positions(_)
Positions(value) ==
    {<<>>} \cup
    CASE value.t = "array" ->
            UNION {{<<IndexStep(i - 1)>> \o p : p \in Positions(value.v[i])} :
                      i \in 1..Len(value.v)}
      [] value.t = "object" ->
            UNION {{<<KeyStep(value.v[i].k)>> \o p : p \in Positions(value.v[i].val)} :
                      i \in 1..Len(value.v)}
      [] OTHER -> {}

\* the value at a position, absent when the steps do not lead anywhere
RECURSIVE ValueAt(_, _)
ValueAt(value, pos) ==
    IF pos = <<>> THEN value
    ELSE IF Head(pos).kind = "index" /\ value.t = "array"
    THEN ValueAt(ElementGet(value, Head(pos).index), Tail(pos))
    ELSE IF Head(pos).kind = "key" /\ value.t = "object"
    THEN ValueAt(PropertyGet(value, Head(pos).key), Tail(pos))
    ELSE Undefined

\* the path of a position: "$", then ".key" or "[index]" for each step
RECURSIVE PathOf(_)
PathOf(pos) ==
    IF pos = <<>> THEN <<"$">>
    ELSE LET step == pos[Len(pos)]
             above == PathOf(SubSeq(pos, 1, Len(pos) - 1))
         IN IF step.kind = "key" THEN above \o <<".">> \o step.key
            ELSE above \o <<"[">> \o ToDigits(step.index) \o <<"]">>

\* the two values differ at the position itself, not merely somewhere inside
\* two arrays or two objects found there
DifferAt(l, r, pos) ==
    LET a == ValueAt(l, pos)
        b == ValueAt(r, pos)
    IN /\ ~DeepEqual(a, b)
       /\ ~(a.t = "array" /\ b.t = "array")
       /\ ~(a.t = "object" /\ b.t = "object")

RECURSIVE NoKeyHasPathSyntax(_)
NoKeyHasPathSyntax(value) ==
    CASE value.t = "array" -> \A i \in 1..Len(value.v) : NoKeyHasPathSyntax(value.v[i])
      [] value.t = "object" ->
            \A i \in 1..Len(value.v) :
                /\ Range(value.v[i].k) \cap {".", "["} = {}
                /\ NoKeyHasPathSyntax(value.v[i].val)
      [] OTHER -> TRUE

PathsDistinct(ds) == \A i, j \in 1..Len(ds) : ds[i].path = ds[j].path => i = j

\* C26 as stated: the paths of one result are pairwise distinct, whatever
\* keys the documents hold.
C26_PathsDistinct ==
    diffPc = "compared" => PathsDistinct(differences)

\* C26 amended: when no object key of either document contains "." or "[",
\* the paths of one result are pairwise distinct.
C26_PathsDistinctForPlainKeys ==
    (diffPc = "compared" /\ NoKeyHasPathSyntax(left) /\ NoKeyHasPathSyntax(right))
        => PathsDistinct(differences)

\* C26 witness: an object with the empty key has been compared with an
\* object with another key, and both keys have their entry.
C26_Witness ==
    /\ diffPc = "compared"
    /\ NoKeyHasPathSyntax(left)
    /\ NoKeyHasPathSyntax(right)
    /\ isObject(left)
    /\ ObjectKeys(left) = <<<<>>>>
    /\ Len(differences) = 2

(***************************************************************************)
(* Properties of the compare UI                                            *)
(***************************************************************************)
\* what the result card shows: the conditions of the JSX of each component
ShownMessages ==
    IF page = "JsonToolkit"
    THEN LET leftValidation == validateJson(leftInput)
             rightValidation == validateJson(rightInput)
         IN {m \in {"hint", "malformed", "noDifferences", "list"} :
                CASE m = "hint" -> ~comparePressed
                  [] m = "malformed" ->
                        comparePressed /\ (~leftValidation.ok \/ ~rightValidation.ok)
                  [] m = "noDifferences" ->
                        /\ comparePressed
                        /\ leftValidation.ok
                        /\ rightValidation.ok
                        /\ Len(shownDifferences) = 0
                  [] m = "list" -> Len(shownDifferences) > 0}
    ELSE {m \in {"hint", "malformed", "noDifferences", "list"} :
                CASE m = "hint" -> ~comparePressed
                  [] m = "malformed" -> error # <<>>
                  [] m = "noDifferences" ->
                        comparePressed /\ error = <<>> /\ Len(shownDifferences) = 0
                  [] m = "list" -> Len(shownDifferences) > 0}

\* both sides parsed: the live validations of JsonToolkit, the parse of the
\* last Compare press of JsonComparePage
BothParsed ==
    IF page = "JsonToolkit"
    THEN validateJson(leftInput).ok /\ validateJson(rightInput).ok
    ELSE error = <<>>

\* C14: the result card shows exactly one of the hint, the malformed-input
\* error, the no-differences message and a difference list, each in its own
\* case (not pressed; pressed and a side did not parse; pressed, parsed, empty
\* diff; pressed, parsed, non-empty diff), and a render calls the differencer
\* only on the parsed values of two inputs that both parse.
C14_ExactlyOneResultShown ==
    page # "none" =>
        /\ Cardinality(ShownMessages) = 1
        /\ "hint" \in ShownMessages <=> ~comparePressed
        /\ "malformed" \in ShownMessages <=> (comparePressed /\ ~BothParsed)
        /\ "noDifferences" \in ShownMessages <=>
              (comparePressed /\ BothParsed /\ shownDifferences = <<>>)
        /\ "list" \in ShownMessages <=>
              (comparePressed /\ BothParsed /\ shownDifferences # <<>>)
        /\ diffCall.called =>
              /\ JSON_parse(leftInput).ok
              /\ JSON_parse(rightInput).ok
              /\ diffCall.left = JSON_parse(leftInput).value
              /\ diffCall.right = JSON_parse(rightInput).value

\* C14 witness: Compare has been pressed on two different texts of deep-equal
\* documents, the differencer ran and the no-differences message is shown.
C14_Witness ==
    /\ page # "none"
    /\ comparePressed
    /\ diffCall.called
    /\ leftInput # rightInput
    /\ ShownMessages = {"noDifferences"}

(***************************************************************************)
(* More properties of the scaffold editor                                  *)
(***************************************************************************)
\* the node of the tree that carries the id, as a tree
NodeById(h, tree, id) ==
    TreeOf(h, CHOOSE a \in Range(Preorder(h, tree)) : h[a].id = id)

\* C19: on every tree the editor reaches, for every node of it and every
\* type, updateScaffoldNodeType gives the node that type and keeps its id and
\* key; its children are gone when the type is scalar or another container
\* type than before, and are the same when it is the container type it had.
C19_TypeChangeRule ==
    rootNode # 0 =>
        \A id \in TreeIds(heap, rootNode), nextType \in NODE_TYPE_OPTIONS :
            LET r == updateScaffoldNodeType(heap, rootNode, id, nextType, nodeCounter)
                before == NodeById(heap, rootNode, id)
                after == NodeById(r.heap, r.node, id)
            IN /\ id \in TreeIds(r.heap, r.node)
               /\ after.type = nextType
               /\ after.key = before.key
               /\ after.children =
                     IF nextType \in {"object", "array"} /\ before.type = nextType
                     THEN before.children
                     ELSE <<>>

\* C19 witness: an object root that has children was just given the type
\* object again.
C19_Witness ==
    /\ rootNode # 0
    /\ lastOp.op = "setNodeType"
    /\ lastOp.id = heap[rootNode].id
    /\ heap[rootNode].type = "object"
    /\ heap[rootNode].children # <<>>

\* C20: on every tree the editor reaches and for every node of it,
\* addScaffoldChild leaves the tree and the counter alone when the node is a
\* scalar, and otherwise puts one new childless string node after the
\* node's children, which stay as they were: keyed field_N with N the
\* number of children before plus one under an object, without a key under
\* an array.
C20_AddChildRule ==
    rootNode # 0 =>
        \A id \in TreeIds(heap, rootNode) :
            LET r == addScaffoldChild(heap, rootNode, id, nodeCounter)
                before == NodeById(heap, rootNode, id)
            IN IF before.type \notin {"object", "array"}
               THEN /\ TreeOf(r.heap, r.node) = TreeOf(heap, rootNode)
                    /\ r.counter = nodeCounter
               ELSE LET after == NodeById(r.heap, r.node, id)
                        N == Len(before.children) + 1
                    IN /\ after.type = before.type
                       /\ after.key = before.key
                       /\ Len(after.children) = N
                       /\ SubSeq(after.children, 1, N - 1) = before.children
                       /\ after.children[N].id \notin TreeIds(heap, rootNode)
                       /\ after.children[N].type = "string"
                       /\ after.children[N].children = <<>>
                       /\ after.children[N].key =
                             IF before.type = "object"
                             THEN KeyOf(FieldPrefix \o ToDigits(N))
                             ELSE KeyUndefined

\* C20 witness: a child was just added to an array root that had one child.
C20_Witness ==
    /\ rootNode # 0
    /\ lastOp.op = "addChild"
    /\ lastOp.id = heap[rootNode].id
    /\ heap[rootNode].type = "array"
    /\ Len(heap[rootNode].children) = 2
    /\ heap[heap[rootNode].children[2]].key = KeyUndefined

\* the address of the node of the tree that carries the id
AddrById(h, tree, id) == CHOOSE a \in Range(Preorder(h, tree)) : h[a].id = id

\* a node without what lies below it: its type, its key and its children's ids
Shallow(h, a) ==
    [type |-> h[a].type, key |-> h[a].key,
     children |-> [n \in 1..Len(h[a].children) |-> h[h[a].children[n]].id]]

\* C21: on every tree the editor reaches and for every node of it but the
\* root, removeScaffoldNode takes away that node and all below it and nothing
\* else: every other node is still there with its type and key, and with its
\* children in their order, the removed one left out.
C21_RemoveTakesExactlyTheSubtree ==
    rootNode # 0 =>
        \A id \in TreeIds(heap, rootNode) \ {heap[rootNode].id} :
            LET r == removeScaffoldNode(heap, rootNode, id, nodeCounter)
                gone == TreeIds(heap, AddrById(heap, rootNode, id))
                Stays(c) == c # id
            IN /\ TreeIds(r.heap, r.node) = TreeIds(heap, rootNode) \ gone
               /\ r.counter = nodeCounter
               /\ \A x \in TreeIds(r.heap, r.node) :
                     LET was == Shallow(heap, AddrById(heap, rootNode, x))
                         is == Shallow(r.heap, AddrById(r.heap, r.node, x))
                     IN /\ is.type = was.type
                        /\ is.key = was.key
                        /\ is.children = SelectSeq(was.children, Stays)

\* C21 witness: the child added below a child of the root has just been
\* removed; its parent is still there, a container without children.
C21_Witness ==
    /\ rootNode # 0
    /\ opCount = 3
    /\ nodeCounter = 5
    /\ lastOp = [op |-> "removeNode", id |-> createNodeId(5)]
    /\ createNodeId(5) \notin TreeIds(heap, rootNode)
    /\ \E n \in 1..Len(heap[rootNode].children) :
          /\ heap[heap[rootNode].children[n]].type \in CONTAINER_TYPES
          /\ heap[heap[rootNode].children[n]].children = <<>>

\* the key a child at 1-based position n is to be rendered under: what lies
\* between the first and the last character of its key that is not white
\* space, or field_n when there is no such character or no key
ExpectedKey(key, n) ==
    LET inked == IF key.def THEN {i \in 1..Len(key.s) : key.s[i] \notin {" ", "\n"}} ELSE {}
    IN IF inked = {} THEN FieldPrefix \o ToDigits(n)
       ELSE SubSeq(key.s,
                   CHOOSE i \in inked : \A j \in inked : i <= j,
                   CHOOSE i \in inked : \A j \in inked : j <= i)

\* keys a field-name input can hold: none, "", " ", "a", " a", "a " and " a b "
SampleKeys ==
    {KeyUndefined, KeyOf(<<>>), KeyOf(<<" ">>), KeyOf(<<"a">>), KeyOf(<<" ", "a">>),
     KeyOf(<<"a", " ">>), KeyOf(<<" ", "a", " ", "b", " ">>)}

\* C22: a child's effective key is its key without the white space around
\* it, or field_N (N its 1-based position) when the key is absent, empty or
\* blank; and in every tree the editor reaches, every object node renders to
\* an object whose keys are the effective keys of its children, none empty.
C22_EffectiveKeys ==
    /\ \A key \in SampleKeys, n \in 1..3 : EffectiveKey(key, n - 1) = ExpectedKey(key, n)
    /\ \A a \in 1..Len(heap) :
          heap[a].type = "object" =>
              LET value == scaffoldNodeToJsonValue(heap, a)
                  kids == heap[a].children
              IN /\ \A n \in 1..Len(kids) :
                        /\ EffectiveKey(heap[kids[n]].key, n - 1) = ExpectedKey(heap[kids[n]].key, n)
                        /\ ExpectedKey(heap[kids[n]].key, n) \in Range(ObjectKeys(value))
                 /\ \A i \in 1..Len(value.v) :
                        /\ value.v[i].k # <<>>
                        /\ \E n \in 1..Len(kids) : value.v[i].k = ExpectedKey(heap[kids[n]].key, n)

\* C22 witness: the key of the root's third child has been blanked, and the
\* root renders it under field_3.
C22_Witness ==
    /\ rootNode # 0
    /\ heap[rootNode].type = "object"
    /\ Len(heap[rootNode].children) = 3
    /\ heap[heap[rootNode].children[3]].key = KeyOf(<<" ">>)
    /\ FieldPrefix \o <<"3">> \in Range(ObjectKeys(scaffoldNodeToJsonValue(heap, rootNode)))

\* the default tree but for its ids
IsDefaultTree(t) ==
    /\ t.type = "object"
    /\ t.key = KeyUndefined
    /\ [n \in 1..Len(t.children) |->
            [type |-> t.children[n].type, key |-> t.children[n].key,
             children |-> t.children[n].children]]
          = << [type |-> "string", key |-> KeyOf(NameKey), children |-> <<>>],
               [type |-> "number", key |-> KeyOf(VersionKey), children |-> <<>>],
               [type |-> "boolean", key |-> KeyOf(ActiveKey), children |-> <<>>] >>

\* C23: a reset leaves a default tree (object root; string "name", number
\* "version", boolean "active") none of whose ids was ever issued before, and
\* every operation called on it with an id issued before the reset returns it
\* as it is.
C23_ResetGivesFreshIds ==
    [][(opCount' = opCount + 1 /\ lastOp'.op = "reset")
          => LET issued == {createNodeId(k) : k \in 1..nodeCounter}
                 fresh == TreeOf(heap', rootNode')
                 Same(r) == TreeOf(r.heap, r.node) = fresh /\ r.counter = nodeCounter'
             IN /\ IsDefaultTree(fresh)
                /\ Cardinality(TreeIds(heap', rootNode')) = 4
                /\ TreeIds(heap', rootNode') \cap issued = {}
                /\ TreeIds(heap, rootNode) \subseteq issued
                /\ \A id \in issued :
                      /\ \A type \in NODE_TYPE_OPTIONS :
                            Same(updateScaffoldNodeType(heap', rootNode', id, type, nodeCounter'))
                      /\ \A key \in KeyInputs :
                            Same(updateScaffoldNodeKey(heap', rootNode', id, key, nodeCounter'))
                      /\ Same(addScaffoldChild(heap', rootNode', id, nodeCounter'))
                      /\ Same(removeScaffoldNode(heap', rootNode', id, nodeCounter'))]_vars

\* C23 witness: a tree that had been edited (a child added) has just been
\* reset.
C23_Witness ==
    /\ rootNode # 0
    /\ lastOp.op = "reset"
    /\ opCount >= 2
    /\ nodeCounter = 9
    /\ Len(heap[rootNode].children) = 3

(***************************************************************************)
(* Properties of useTtsJob                                                 *)
(***************************************************************************)
\* C24: a poll response that reports done or error leaves no interval for
\* its job, none is ever scheduled for that job again (so no poll request is
\* started for it), and with the interval firing, the backend finishing its
\* jobs and polls getting through, polling comes to a stop.
C24_PollingStopsAtCompletion ==
    /\ [][(ttsEvent'.ev = "pollResponse" /\ ttsEvent'.status \in {"done", "error"}
              /\ (responses' # responses \/ ttsEvent' # ttsEvent))
            => (ttsEvent'.job \notin timers' /\ pollRef' = 0)]_vars
    /\ [](reported \cap timers = {})
    /\ <>[](timers = {})

\* C24 witness: a job was created and polled, a poll response reported it
\* failed, and no interval is left.
C24_Witness ==
    /\ mounted
    /\ ttsEvent.ev = "pollResponse"
    /\ ttsEvent.status = "error"
    /\ activeJob = [id |-> ttsEvent.job, status |-> "error"]
    /\ ttsEvent.job \in reported
    /\ timers = {}

\* C27 as stated: a poll response for a job older than the active one
\* leaves activeJob as it is and the active job's interval scheduled.
C27_LateResponseIsIgnored ==
    [][(/\ ttsEvent'.ev = "pollResponse"
        /\ (responses' # responses \/ ttsEvent' # ttsEvent)
        /\ mounted
        /\ activeJob.id # 0
        /\ ttsEvent'.job < activeJob.id)
          => /\ activeJob' = activeJob
             /\ activeJob.id \in timers => activeJob.id \in timers']_vars

\* C28 as stated: while the hook is mounted and no request is being
\* submitted, a queued or processing activeJob has its interval scheduled.
C28_DisplayedJobIsPolled ==
    (mounted /\ ~isSubmitting /\ activeJob.status \in {"queued", "processing"})
        => activeJob.id \in timers

\* C29 as stated: once the component is unmounted no interval is scheduled.
C29_NoTimerAfterUnmount ==
    ~mounted => timers = {}

(***************************************************************************)
(* The result of JsonComparePage against its current inputs                *)
(***************************************************************************)
\* C30: on JsonComparePage the no-differences message is shown only while
\* the current texts parse to deep-equal values, and a shown difference list
\* is the diff of the values the current texts parse to.
C30_ResultMatchesCurrentInputs ==
    page = "JsonComparePage" =>
        LET parsedLeft == JSON_parse(leftInput)
            parsedRight == JSON_parse(rightInput)
        IN /\ "noDifferences" \in ShownMessages =>
                 /\ parsedLeft.ok
                 /\ parsedRight.ok
                 /\ DeepEqual(parsedLeft.value, parsedRight.value)
           /\ "list" \in ShownMessages =>
                 /\ parsedLeft.ok
                 /\ parsedRight.ok
                 /\ shownDifferences =
                       diffJsonValues(parsedLeft.value, parsedRight.value, RootPath)

====
